---- MODULE Spec2Model ----
(***************************************************************************)
(* cpp_result: Result<T, E> and Result<void, E> (include/result.hpp).      *)
(*                                                                         *)
(* The state is a small set of named containers of the instantiation in    *)
(* use, the process status (running or aborted), the standard error stream *)
(* and a record of the statement being evaluated: the member function      *)
(* called, its receiver, arguments and result, and the number of times     *)
(* each callback was invoked.  Payload lifetimes are tracked per storage:  *)
(* `live` names the member that holds a constructed object; an operation   *)
(* raises `leak` when it reuses or releases storage whose object was not   *)
(* destroyed and `bad` when it runs a destructor on, or copies from, a     *)
(* member that holds no live object.  Raised flags are collected in        *)
(* `faults`.  In Spec the payload constructors do not throw; SpecThrow     *)
(* lets the payload constructor called by an assignment throw.             *)
(***************************************************************************)
EXTENDS Integers, Sequences, FiniteSets, TLC

\* ---- bounds ----
MaxT == 1
MaxE == 1
NSlots == 2

\* T{} in unwrap_or_default; E error_ default-initialised in Result<void,E>
DefaultT == 0
DefaultE == -1

T == 0..MaxT
E == {DefaultE - i : i \in 0..MaxE}
Slots == 1..NSlots
Msgs == {"custom error message", "should not fail"}

\* ---- EXPECT_OR_ABORT ----
EXPECT_OR_ABORT(cond, msg) ==
  IF ~cond THEN [aborted |-> TRUE, out |-> <<msg>>]
  ELSE [aborted |-> FALSE, out |-> <<>>]

\* ======================= Result<T, E> storage =========================
\* union Data { T value; E error; Data() {} ~Data() {} } data_; bool is_ok_;
Data(b) == [is_ok_ |-> b, live |-> "none", data_ |-> 0, leak |-> FALSE, bad |-> FALSE]

\* a container that is not in scope
Absent == [is_ok_ |-> FALSE, live |-> "absent", data_ |-> 0, leak |-> FALSE, bad |-> FALSE]

\* new (&data_.member) X(x)
PlacementNew(c, member, x) ==
  [c EXCEPT !.live = member, !.data_ = x, !.leak = c.leak \/ c.live # "none"]

\* data_.member read as the source of a copy or move
ReadFrom(c, src, member) ==
  PlacementNew([c EXCEPT !.bad = c.bad \/ src.live # member], member, src.data_)

\* data_.value.~T() / data_.error.~E()
DtorCall(c, member) ==
  IF c.live = member THEN [c EXCEPT !.live = "none"] ELSE [c EXCEPT !.bad = TRUE]

\* variant: the conditional of destroy() is inverted
destroy_WrongBranch(c) == IF c.is_ok_ THEN DtorCall(c, "error") ELSE DtorCall(c, "value")

destroy(c) == IF c.is_ok_ THEN DtorCall(c, "value") ELSE DtorCall(c, "error")

\* explicit Result(T val) / explicit Result(E err)
ResultT(val) == PlacementNew(Data(TRUE), "value", val)
\* variant: the failure constructor initialises is_ok_(true)
ResultE_AsOk(err) == PlacementNew(Data(TRUE), "error", err)

ResultE(err) == PlacementNew(Data(FALSE), "error", err)

Ok(val) == ResultT(val)
Err(err) == ResultE(err)

is_ok(c) == c.is_ok_
is_err(c) == ~c.is_ok_

\* Result(Result &&other) and Result(const Result &other): the same placement
\* of the active member; they differ in what is left in `other`
MoveCtor(other) ==
  IF other.is_ok_ THEN ReadFrom(Data(other.is_ok_), other, "value")
  ELSE ReadFrom(Data(other.is_ok_), other, "error")

CopyCtor(other) ==
  IF other.is_ok_ THEN ReadFrom(Data(other.is_ok_), other, "value")
  ELSE ReadFrom(Data(other.is_ok_), other, "error")

\* variant: the assignment omits `is_ok_ = other.is_ok_`
MoveAssign_StaleFlag(self, other, same) ==
  IF ~same THEN
    LET d == destroy(self)
    IN IF other.is_ok_ THEN ReadFrom(d, other, "value") ELSE ReadFrom(d, other, "error")
  ELSE self

\* operator=(Result &&other); same = (this == &other)
MoveAssign(self, other, same) ==
  IF ~same THEN
    LET d == [destroy(self) EXCEPT !.is_ok_ = other.is_ok_]
    IN IF d.is_ok_ THEN ReadFrom(d, other, "value") ELSE ReadFrom(d, other, "error")
  ELSE self

\* variant: the assignment copies the discriminant but constructs no payload
CopyAssign_NoPayload(self, other, same) ==
  IF ~same THEN [self EXCEPT !.is_ok_ = other.is_ok_] ELSE self

\* operator=(const Result &other)
CopyAssign(self, other, same) ==
  IF ~same THEN
    LET d == [destroy(self) EXCEPT !.is_ok_ = other.is_ok_]
    IN IF d.is_ok_ THEN ReadFrom(d, other, "value") ELSE ReadFrom(d, other, "error")
  ELSE self

\* operator= when the T or E constructor called by the placement new throws:
\* destroy() and `is_ok_ = other.is_ok_` have run, no object was constructed
AssignInterrupted(self, other) == [destroy(self) EXCEPT !.is_ok_ = other.is_ok_]

\* ~Result() { destroy(); } followed by the release of the storage
Dtor(c) ==
  LET d == destroy(c) IN [d EXCEPT !.leak = d.leak \/ d.live # "none"]

\* the payload a moved-from container is left with: T(T&&) / E(E&&) leave
\* their source valid but unspecified
MovedFrom(other, left) == [other EXCEPT !.data_ = left]
Domain(c) == IF c.live = "value" THEN T ELSE E

\* ======================= Result<void, E> storage ======================
\* E error_; bool is_ok_;  error_ is an ordinary member: it is
\* default-initialised by every constructor and destroyed by the implicit
\* destructor
VData(b) == [is_ok_ |-> b, live |-> "error", error_ |-> DefaultE, leak |-> FALSE, bad |-> FALSE]

VAbsent == [is_ok_ |-> FALSE, live |-> "absent", error_ |-> DefaultE, leak |-> FALSE, bad |-> FALSE]

\* new (&error_) E(x)
VPlacementNew(c, x) ==
  [c EXCEPT !.live = "error", !.error_ = x, !.leak = c.leak \/ c.live # "none"]

\* Result() noexcept : is_ok_(true) {} / explicit Result(E err)
VResult == VData(TRUE)
VResultE(err) == VPlacementNew(VData(FALSE), err)

VOk == VResult
VErr(err) == VResultE(err)

VMoveCtor(other) ==
  IF ~other.is_ok_ THEN VPlacementNew(VData(other.is_ok_), other.error_)
  ELSE VData(other.is_ok_)

VCopyCtor(other) ==
  IF ~other.is_ok_ THEN VPlacementNew(VData(other.is_ok_), other.error_)
  ELSE VData(other.is_ok_)

VMoveAssign(self, other, same) ==
  IF ~same THEN
    LET d == [self EXCEPT !.is_ok_ = other.is_ok_]
    IN IF ~d.is_ok_ THEN VPlacementNew(d, other.error_) ELSE d
  ELSE self

VCopyAssign(self, other, same) ==
  IF ~same THEN
    LET d == [self EXCEPT !.is_ok_ = other.is_ok_]
    IN IF ~d.is_ok_ THEN VPlacementNew(d, other.error_) ELSE d
  ELSE self

\* implicit ~Result(): destroys the member error_
VDtor(c) ==
  IF c.live = "error" THEN [c EXCEPT !.live = "none"] ELSE [c EXCEPT !.bad = TRUE]

VMovedFrom(other, left) == [other EXCEPT !.error_ = left]

\* ===================== Result<T, E> operations ========================
\* A member function returns [aborted, out, ret, calls, dcalls]: whether an
\* EXPECT_OR_ABORT in it ended the process, what it wrote to stderr, the
\* value or reference returned, and the number of invocations of func / of
\* the default supplier.  A callable of one argument is a function on the
\* payload domain; a callable of no argument is the value it returns.
\* `seen` lists the argument tuples an observing callback was called with.
Extract(chk, x) ==
  [aborted |-> chk.aborted, out |-> chk.out, ret |-> x, calls |-> 0, dcalls |-> 0,
   seen |-> <<>>]

unwrap(c) == Extract(EXPECT_OR_ABORT(c.is_ok_, "unwrap called on Result::Err()"), c.data_)

unwrap_err(c) ==
  Extract(EXPECT_OR_ABORT(~c.is_ok_, "unwrap_err called on Result::Ok()"), c.data_)

\* variant: expect ignores msg and reports as unwrap does
expect_FixedMsg(c, msg) == unwrap(c)

expect(c, msg) == Extract(EXPECT_OR_ABORT(c.is_ok_, msg), c.data_)

expect_err(c, msg) == Extract(EXPECT_OR_ABORT(~c.is_ok_, msg), c.data_)

\* a return from a function that holds no EXPECT_OR_ABORT
Out(x, n, m) ==
  [aborted |-> FALSE, out |-> <<>>, ret |-> x, calls |-> n, dcalls |-> m,
   seen |-> <<>>]

\* the callable was called with the arguments args
Observed(o, args) == [o EXCEPT !.seen = Append(o.seen, args)]

\* variant: the branches of the conditional are exchanged
unwrap_or_Swapped(c, default_value) ==
  Out(IF c.is_ok_ THEN default_value ELSE c.data_, 0, 0)

unwrap_or(c, default_value) ==
  Out(IF c.is_ok_ THEN c.data_ ELSE default_value, 0, 0)

\* variant: the supplier is evaluated before the test
unwrap_or_else_Eager(c, func) ==
  IF c.is_ok_ THEN Out(c.data_, 1, 0) ELSE Out(func, 1, 0)

unwrap_or_else(c, func) ==
  IF c.is_ok_ THEN Out(c.data_, 0, 0) ELSE Out(func, 1, 0)

\* variant: the success payload is taken through unwrap()
unwrap_or_default_Unwraps(c) ==
  IF unwrap(c).aborted THEN unwrap(c) ELSE Out(unwrap(c).ret, 0, 0)

unwrap_or_default(c) ==
  IF c.is_ok_ THEN Out(c.data_, 0, 0) ELSE Out(DefaultT, 0, 0)

\* variant: the result of pred is dropped
is_ok_and_NoPred(c, pred) ==
  IF c.is_ok_ THEN Out(TRUE, 1, 0) ELSE Out(FALSE, 0, 0)

is_ok_and(c, pred) ==
  IF c.is_ok_ THEN Out(pred[c.data_], 1, 0) ELSE Out(FALSE, 0, 0)

is_err_and(c, pred) ==
  IF ~c.is_ok_ THEN Out(pred[c.data_], 1, 0) ELSE Out(FALSE, 0, 0)

\* variant: func is called but the payload is stored unmapped
map_Unmapped(c, func) ==
  IF c.is_ok_ THEN Out(Ok(c.data_), 1, 0) ELSE Out(Err(c.data_), 0, 0)

\* variant: a failure is rebuilt from a default-constructed E
map_DropsError(c, func) ==
  IF c.is_ok_ THEN Out(Ok(func[c.data_]), 1, 0) ELSE Out(Err(DefaultE), 0, 0)

map(c, func) ==
  IF c.is_ok_ THEN Out(Ok(func[c.data_]), 1, 0) ELSE Out(Err(c.data_), 0, 0)

\* variant: func is called but the error is stored unmapped
map_err_Unmapped(c, func) ==
  IF c.is_ok_ THEN Out(Ok(c.data_), 0, 0) ELSE Out(Err(c.data_), 1, 0)

map_err(c, func) ==
  IF c.is_ok_ THEN Out(Ok(c.data_), 0, 0) ELSE Out(Err(func[c.data_]), 1, 0)

map_or(c, default_value, func) ==
  IF c.is_ok_ THEN Out(func[c.data_], 1, 0) ELSE Out(default_value, 0, 0)

\* variant: default_fn is evaluated before the test
map_or_else_Eager(c, default_fn, func) ==
  IF c.is_ok_ THEN Out(func[c.data_], 1, 1) ELSE Out(default_fn, 0, 1)

map_or_else(c, default_fn, func) ==
  IF c.is_ok_ THEN Out(func[c.data_], 1, 0) ELSE Out(default_fn, 0, 1)

\* variant: func is also called, on T{}, when self is a failure
and_then_NoShortCircuit(c, func) ==
  IF c.is_ok_ THEN Out(func[c.data_], 1, 0) ELSE Out(func[DefaultT], 1, 0)

and_then(c, func) ==
  IF c.is_ok_ THEN Observed(Out(func[c.data_], 1, 0), <<c.data_>>)
  ELSE Out(Err(c.data_), 0, 0)

and_(c, res) ==
  IF c.is_ok_ THEN Out(CopyCtor(res), 0, 0) ELSE Out(Err(c.data_), 0, 0)

\* variant: the test of is_ok_ is inverted
or_Inverted(c, res) ==
  IF c.is_ok_ THEN Out(CopyCtor(res), 0, 0) ELSE Out(CopyCtor(c), 0, 0)

or_(c, res) ==
  IF ~c.is_ok_ THEN Out(CopyCtor(res), 0, 0) ELSE Out(CopyCtor(c), 0, 0)

\* variant: op is evaluated before the test
or_else_Eager(c, op) ==
  IF ~c.is_ok_ THEN Out(op, 1, 0) ELSE Out(CopyCtor(c), 1, 0)

\* variant: op is given the failure payload
or_else_WithPayload(c, op) ==
  IF ~c.is_ok_ THEN Observed(Out(op, 1, 0), <<c.data_>>)
  ELSE Out(CopyCtor(c), 0, 0)

\* op() takes no argument
or_else(c, op) ==
  IF ~c.is_ok_ THEN Observed(Out(op, 1, 0), <<>>) ELSE Out(CopyCtor(c), 0, 0)

\* variant: func is called whatever the branch
inspect_Always(c, func) == Observed(Out(c, 1, 0), <<c.data_>>)

\* inspect / inspect_err return *this by reference
inspect(c, func) ==
  IF c.is_ok_ THEN Observed(Out(c, 1, 0), <<c.data_>>) ELSE Out(c, 0, 0)

inspect_err(c, func) ==
  IF ~c.is_ok_ THEN Observed(Out(c, 1, 0), <<c.data_>>) ELSE Out(c, 0, 0)

contains(c, value) == Out(c.is_ok_ /\ c.data_ = value, 0, 0)

contains_err(c, error) == Out(~c.is_ok_ /\ c.data_ = error, 0, 0)

\* variant: the inner container is returned with the outer discriminant
flatten_OuterFlag(c) ==
  IF c.is_ok_ THEN Out([CopyCtor(c.data_) EXCEPT !.is_ok_ = c.is_ok_], 0, 0)
  ELSE Out(Err(c.data_), 0, 0)

\* flatten: data_.value is itself a Result<U, E>
flatten(c) ==
  IF c.is_ok_ THEN Out(CopyCtor(c.data_), 0, 0) ELSE Out(Err(c.data_), 0, 0)

\* std::optional<X>(x) / std::nullopt
Some(x) == [has_value |-> TRUE, value |-> x]
nullopt == [has_value |-> FALSE, value |-> 0]

ok(c) == Out(IF c.is_ok_ THEN Some(c.data_) ELSE nullopt, 0, 0)

\* variant: err() tests is_ok_ as ok() does
err_Inverted(c) == Out(IF c.is_ok_ THEN Some(c.data_) ELSE nullopt, 0, 0)

err(c) == Out(IF ~c.is_ok_ THEN Some(c.data_) ELSE nullopt, 0, 0)

\* =================== Result<void, E> operations =======================
Vis_ok(c) == c.is_ok_
Vis_err(c) == ~c.is_ok_

Unit == "void"

Vunwrap(c) == Extract(EXPECT_OR_ABORT(c.is_ok_, "unwrap called on Result::Err()"), Unit)

Vunwrap_err(c) ==
  Extract(EXPECT_OR_ABORT(~c.is_ok_, "unwrap_err called on Result::Ok()"), c.error_)

Vexpect(c, msg) == Extract(EXPECT_OR_ABORT(c.is_ok_, msg), Unit)

Vexpect_err(c, msg) == Extract(EXPECT_OR_ABORT(~c.is_ok_, msg), c.error_)

Vmap_err(c, func) ==
  IF c.is_ok_ THEN Out(VOk, 0, 0) ELSE Out(VErr(func[c.error_]), 1, 0)

Vinspect(c, func) == IF c.is_ok_ THEN Observed(Out(c, 1, 0), <<>>) ELSE Out(c, 0, 0)

Vinspect_err(c, func) ==
  IF ~c.is_ok_ THEN Observed(Out(c, 1, 0), <<c.error_>>) ELSE Out(c, 0, 0)

Vis_err_and(c, pred) ==
  IF ~c.is_ok_ THEN Out(pred[c.error_], 1, 0) ELSE Out(FALSE, 0, 0)

Verr(c) == Out(IF ~c.is_ok_ THEN Some(c.error_) ELSE nullopt, 0, 0)

Vand_(c, res) ==
  IF c.is_ok_ THEN Out(VCopyCtor(res), 0, 0) ELSE Out(VErr(c.error_), 0, 0)

Vor_(c, res) ==
  IF ~c.is_ok_ THEN Out(VCopyCtor(res), 0, 0) ELSE Out(VCopyCtor(c), 0, 0)

Vcontains_err(c, error) == Out(~c.is_ok_ /\ c.error_ = error, 0, 0)

\* variant: func is evaluated before the test
Vmap_Eager(c, func) ==
  IF c.is_ok_ THEN Out(Ok(func), 1, 0) ELSE Out(Err(c.error_), 1, 0)

\* map / and_then of the no-payload form take a callable of no argument
Vmap(c, func) ==
  IF c.is_ok_ THEN Out(Ok(func), 1, 0) ELSE Out(Err(c.error_), 0, 0)

Vand_then(c, func) ==
  IF c.is_ok_ THEN Out(func, 1, 0) ELSE Out(Err(c.error_), 0, 0)

Vmap_or(c, default_value, func) ==
  IF c.is_ok_ THEN Out(func, 1, 0) ELSE Out(default_value, 0, 0)

Vmap_or_else(c, default_fn, func) ==
  IF c.is_ok_ THEN Out(func, 1, 0) ELSE Out(default_fn, 0, 1)

\* ======================= TRY / TRYL ===================================
\* What one expansion of the macro does with the container its expression
\* evaluated to: `evals` counts the evaluations of the expression, `returns`
\* tells whether the enclosing function returns, with `ret`; otherwise
\* `value` is what the construct yields or binds.
Propagated(chk, n, returns, x) ==
  [aborted |-> chk.aborted, out |-> chk.out, evals |-> n, returns |-> returns,
   ret |-> IF returns THEN x ELSE Absent, value |-> IF returns THEN 0 ELSE x,
   well_formed |-> TRUE]

\* variant: the test of is_err() is missing
TRY_Unchecked(res) == Propagated(unwrap(res), 1, FALSE, unwrap(res).ret)

\* ({ auto &&__res = (expr); if (__res.is_err()) return ...; std::move(...); })
TRY(res) ==
  IF is_err(res)
  THEN Propagated(unwrap_err(res), 1, TRUE, Err(unwrap_err(res).ret))
  ELSE Propagated(unwrap(res), 1, FALSE, unwrap(res).ret)

\* ([&]() -> decltype(auto) { auto &&__res = (expr); if (__res.is_err())
\*    return __res_type::Err(...); return std::move(__res.unwrap()); }())
\* Each return leaves the lambda, not the enclosing function, and the two
\* deduce different return types (Result<T, E> and T&&): the expansion is
\* ill-formed and no program is built from it.
TRY_lambda(res) ==
  [(IF is_err(res)
    THEN Propagated(unwrap_err(res), 1, FALSE, Err(unwrap_err(res).ret))
    ELSE Propagated(unwrap(res), 1, FALSE, unwrap(res).ret))
   EXCEPT !.well_formed = FALSE]

TRYL(res) ==
  IF is_err(res)
  THEN Propagated(unwrap_err(res), 1, TRUE, Err(unwrap_err(res).ret))
  ELSE Propagated(unwrap(res), 1, FALSE, unwrap(res).ret)

\* ======================= examples/advanced.cpp ========================
\* A std::string is the sequence of its characters.
DigitChars == <<"0", "1", "2", "3", "4", "5", "6", "7", "8", "9">>
IsDigit(c) == \E d \in 1..10 : DigitChars[d] = c
DigitValue(c) == (CHOOSE d \in 1..10 : DigitChars[d] = c) - 1
IsSpace(c) == c \in {" ", "\t", "\n"}
INT_MAX == 2147483647

RECURSIVE SkipSpace(_)
SkipSpace(s) == IF s # <<>> /\ IsSpace(Head(s)) THEN SkipSpace(Tail(s)) ELSE s

RECURSIVE DigitPrefix(_)
DigitPrefix(s) ==
  IF s # <<>> /\ IsDigit(Head(s)) THEN <<Head(s)>> \o DigitPrefix(Tail(s))
  ELSE <<>>

RECURSIVE Decimal(_, _)
Decimal(ds, acc) ==
  IF ds = <<>> THEN acc ELSE Decimal(Tail(ds), 10 * acc + DigitValue(Head(ds)))

\* std::stoi: leading white space, an optional sign, the longest run of
\* digits; throws when there is no digit or the value does not fit an int
stoi(s) ==
  LET t == SkipSpace(s)
      signed == t # <<>> /\ Head(t) \in {"+", "-"}
      neg == t # <<>> /\ Head(t) = "-"
      ds == DigitPrefix(IF signed THEN Tail(t) ELSE t)
      n == IF neg THEN -Decimal(ds, 0) ELSE Decimal(ds, 0)
  IN  IF ds = <<>> THEN [thrown |-> "invalid_argument", value |-> 0]
      ELSE IF n > INT_MAX \/ n < -INT_MAX - 1
           THEN [thrown |-> "out_of_range", value |-> 0]
           ELSE [thrown |-> "none", value |-> n]

RECURSIVE DecimalDigits(_)
DecimalDigits(n) ==
  IF n < 10 THEN <<DigitChars[n + 1]>>
  ELSE DecimalDigits(n \div 10) \o <<DigitChars[(n % 10) + 1]>>

to_string(v) == IF v < 0 THEN <<"-">> \o DecimalDigits(-v) ELSE DecimalDigits(v)

\* a / b on int: the quotient is truncated towards zero
IntDiv(a, b) ==
  LET q == (IF a < 0 THEN -a ELSE a) \div (IF b < 0 THEN -b ELSE b)
  IN  IF (a < 0) # (b < 0) THEN -q ELSE q

InvalidInteger == <<"I", "n", "v", "a", "l", "i", "d", " ", "i", "n", "t", "e", "g", "e", "r", ":", " ">>
DivisionByZero == <<"D", "i", "v", "i", "s", "i", "o", "n", " ", "b", "y", " ", "z", "e", "r", "o">>
ValueTooSmall == <<"V", "a", "l", "u", "e", " ", "t", "o", "o", " ", "s", "m", "a", "l", "l", ":", " ">>

parse_int(s) ==
  IF stoi(s).thrown = "none" THEN Ok(stoi(s).value) ELSE Err(InvalidInteger \o s)

safe_div(a, b) == IF b = 0 THEN Err(DivisionByZero) ELSE Ok(IntDiv(a, b))

\* variant: the test of v > 10 is missing
DoubleIfBig_Always(v) == Ok(v * 2)

\* [](int v) { if (v > 10) return Ok(v * 2); return Err("Value too small: " ...); }
DoubleIfBig(v) ==
  IF v > 10 THEN Ok(v * 2) ELSE Err(ValueTooSmall \o to_string(v))

\* [y](int v) { return v + y; }
AddY(y, v) == v + y

\* the strings main() passes, and a few more
Strings == {<<"4", "0">>, <<"2">>, <<"1", "8">>, <<"a", "b", "c">>, <<"1", "0">>, <<"0">>, <<"-", "8">>, <<"7", "z">>}

\* ---- argument domains ----
Fns == [T -> T]
ErrFns == [E -> E]
Preds == [T -> BOOLEAN]
ErrPreds == [E -> BOOLEAN]
Results == {Ok(v) : v \in T} \cup {Err(e) : e \in E}
ResultFns == [T -> Results]
VResults == {VOk} \cup {VErr(e) : e \in E}

\* ============================ state ===================================
\* form: the instantiation the program under consideration uses
\* ("general" = Result<T, E>, "void" = Result<void, E>); g / w: its containers
VARIABLES form, g, w, faults, aborted, stderr, last, frame

vars == <<form, g, w, faults, aborted, stderr, last, frame>>

NoOp == [op |-> "none", form |-> "none", dst |-> 0, src |-> 0,
         self |-> Absent, other |-> Absent, arg |-> 0, ret |-> 0,
         calls |-> 0, dcalls |-> 0, seen |-> <<>>]

\* the activation of a function whose body uses TRY / TRYL: the expressions
\* evaluated so far, the container the last one gave, the locals, the number
\* of statements run after the first construct, and the returned container
NoFrame == [fn |-> "none", pc |-> "none", args |-> <<>>, evals |-> <<>>,
            res |-> Absent, x |-> 0, y |-> 0, stmts |-> 0, ret |-> Absent,
            has_statement_expr |-> TRUE]

\* CPP_RESULT_HAS_STATEMENT_EXPR is fixed when the program is built
Build(b) == [NoFrame EXCEPT !.has_statement_expr = b]

Present(c) == c.live # "absent"

\* a fault is recorded when it happens; the container carries on without it
Settle(c) == [c EXCEPT !.leak = FALSE, !.bad = FALSE]

Faults(kind, c) ==
  (IF c.leak THEN {<<kind, "leak">>} ELSE {}) \cup
  (IF c.bad THEN {<<kind, "bad">>} ELSE {})

Init ==
  /\ form \in {"general", "void", "function"}
  /\ g = [i \in Slots |-> Absent]
  /\ w = [i \in Slots |-> VAbsent]
  /\ faults = {}
  /\ aborted = FALSE
  /\ stderr = <<>>
  /\ last = NoOp
  /\ frame \in IF form = "function" THEN {Build(b) : b \in BOOLEAN} ELSE {NoFrame}

Running == ~aborted
\* the program is sequential: a statement is evaluated to its end, where its
\* temporaries go away, before the next one starts
Idle == last.op = "none"
General == Running /\ Idle /\ form = "general"
Void == Running /\ Idle /\ form = "void"

\* the end of the full-expression: the returned temporary is discarded
EndStatement ==
  /\ Running /\ ~Idle
  /\ last' = NoOp
  /\ UNCHANGED <<form, g, w, faults, aborted, stderr, frame>>

\* ---- lifecycle of the general form ----
ConstructOk(i, v) ==
  /\ General /\ ~Present(g[i])
  /\ g' = [g EXCEPT ![i] = Settle(Ok(v))]
  /\ faults' = faults \cup Faults("general", Ok(v))
  /\ last' = [NoOp EXCEPT !.op = "Ok", !.form = "general", !.dst = i, !.arg = v]
  /\ UNCHANGED <<form, w, aborted, stderr, frame>>

ConstructErr(i, e) ==
  /\ General /\ ~Present(g[i])
  /\ g' = [g EXCEPT ![i] = Settle(Err(e))]
  /\ faults' = faults \cup Faults("general", Err(e))
  /\ last' = [NoOp EXCEPT !.op = "Err", !.form = "general", !.dst = i, !.arg = e]
  /\ UNCHANGED <<form, w, aborted, stderr, frame>>

CopyConstruct(i, j) ==
  /\ General /\ ~Present(g[i]) /\ Present(g[j])
  /\ g' = [g EXCEPT ![i] = Settle(CopyCtor(g[j]))]
  /\ faults' = faults \cup Faults("general", CopyCtor(g[j]))
  /\ last' = [NoOp EXCEPT !.op = "copy_ctor", !.form = "general", !.dst = i,
                          !.src = j, !.other = g[j]]
  /\ UNCHANGED <<form, w, aborted, stderr, frame>>

MoveConstruct(i, j) ==
  /\ General /\ ~Present(g[i]) /\ Present(g[j])
  /\ \E left \in Domain(g[j]) :
       g' = [g EXCEPT ![i] = Settle(MoveCtor(g[j])), ![j] = MovedFrom(g[j], left)]
  /\ faults' = faults \cup Faults("general", MoveCtor(g[j]))
  /\ last' = [NoOp EXCEPT !.op = "move_ctor", !.form = "general", !.dst = i,
                          !.src = j, !.other = g[j]]
  /\ UNCHANGED <<form, w, aborted, stderr, frame>>

CopyAssignment(i, j) ==
  /\ General /\ Present(g[i]) /\ Present(g[j])
  /\ g' = [g EXCEPT ![i] = Settle(CopyAssign(g[i], g[j], i = j))]
  /\ faults' = faults \cup Faults("general", CopyAssign(g[i], g[j], i = j))
  /\ last' = [NoOp EXCEPT !.op = "copy_assign", !.form = "general", !.dst = i,
                          !.src = j, !.self = g[i], !.other = g[j]]
  /\ UNCHANGED <<form, w, aborted, stderr, frame>>

MoveAssignment(i, j) ==
  /\ General /\ Present(g[i]) /\ Present(g[j])
  /\ \E left \in Domain(g[j]) :
       g' = IF i = j THEN [g EXCEPT ![i] = Settle(MoveAssign(g[i], g[j], TRUE))]
            ELSE [g EXCEPT ![i] = Settle(MoveAssign(g[i], g[j], FALSE)),
                           ![j] = MovedFrom(g[j], left)]
  /\ faults' = faults \cup Faults("general", MoveAssign(g[i], g[j], i = j))
  /\ last' = [NoOp EXCEPT !.op = "move_assign", !.form = "general", !.dst = i,
                          !.src = j, !.self = g[i], !.other = g[j]]
  /\ UNCHANGED <<form, w, aborted, stderr, frame>>

Destruct(i) ==
  /\ General /\ Present(g[i])
  /\ g' = [g EXCEPT ![i] = Absent]
  /\ faults' = faults \cup Faults("general", Dtor(g[i]))
  /\ last' = [NoOp EXCEPT !.op = "dtor", !.form = "general", !.dst = i,
                          !.self = g[i], !.other = Dtor(g[i])]
  /\ UNCHANGED <<form, w, aborted, stderr, frame>>

\* ---- lifecycle of the no-payload form ----
VConstructOk(i) ==
  /\ Void /\ ~Present(w[i])
  /\ w' = [w EXCEPT ![i] = Settle(VOk)]
  /\ faults' = faults \cup Faults("void", VOk)
  /\ last' = [NoOp EXCEPT !.op = "Ok", !.form = "void", !.dst = i]
  /\ UNCHANGED <<form, g, aborted, stderr, frame>>

VConstructErr(i, e) ==
  /\ Void /\ ~Present(w[i])
  /\ w' = [w EXCEPT ![i] = Settle(VErr(e))]
  /\ faults' = faults \cup Faults("void", VErr(e))
  /\ last' = [NoOp EXCEPT !.op = "Err", !.form = "void", !.dst = i, !.arg = e]
  /\ UNCHANGED <<form, g, aborted, stderr, frame>>

VCopyConstruct(i, j) ==
  /\ Void /\ ~Present(w[i]) /\ Present(w[j])
  /\ w' = [w EXCEPT ![i] = Settle(VCopyCtor(w[j]))]
  /\ faults' = faults \cup Faults("void", VCopyCtor(w[j]))
  /\ last' = [NoOp EXCEPT !.op = "copy_ctor", !.form = "void", !.dst = i,
                          !.src = j, !.other = w[j]]
  /\ UNCHANGED <<form, g, aborted, stderr, frame>>

VMoveConstruct(i, j) ==
  /\ Void /\ ~Present(w[i]) /\ Present(w[j])
  /\ \E left \in E :
       w' = [w EXCEPT ![i] = Settle(VMoveCtor(w[j])),
                      ![j] = IF w[j].is_ok_ THEN w[j] ELSE VMovedFrom(w[j], left)]
  /\ faults' = faults \cup Faults("void", VMoveCtor(w[j]))
  /\ last' = [NoOp EXCEPT !.op = "move_ctor", !.form = "void", !.dst = i,
                          !.src = j, !.other = w[j]]
  /\ UNCHANGED <<form, g, aborted, stderr, frame>>

VCopyAssignment(i, j) ==
  /\ Void /\ Present(w[i]) /\ Present(w[j])
  /\ w' = [w EXCEPT ![i] = Settle(VCopyAssign(w[i], w[j], i = j))]
  /\ faults' = faults \cup Faults("void", VCopyAssign(w[i], w[j], i = j))
  /\ last' = [NoOp EXCEPT !.op = "copy_assign", !.form = "void", !.dst = i,
                          !.src = j, !.self = w[i], !.other = w[j]]
  /\ UNCHANGED <<form, g, aborted, stderr, frame>>

VMoveAssignment(i, j) ==
  /\ Void /\ Present(w[i]) /\ Present(w[j])
  /\ \E left \in E :
       w' = IF i = j \/ w[j].is_ok_
            THEN [w EXCEPT ![i] = Settle(VMoveAssign(w[i], w[j], i = j))]
            ELSE [w EXCEPT ![i] = Settle(VMoveAssign(w[i], w[j], FALSE)),
                           ![j] = VMovedFrom(w[j], left)]
  /\ faults' = faults \cup Faults("void", VMoveAssign(w[i], w[j], i = j))
  /\ last' = [NoOp EXCEPT !.op = "move_assign", !.form = "void", !.dst = i,
                          !.src = j, !.self = w[i], !.other = w[j]]
  /\ UNCHANGED <<form, g, aborted, stderr, frame>>

VDestruct(i) ==
  /\ Void /\ Present(w[i])
  /\ w' = [w EXCEPT ![i] = VAbsent]
  /\ faults' = faults \cup Faults("void", VDtor(w[i]))
  /\ last' = [NoOp EXCEPT !.op = "dtor", !.form = "void", !.dst = i,
                          !.self = w[i], !.other = VDtor(w[i])]
  /\ UNCHANGED <<form, g, aborted, stderr, frame>>

Named == IF Running /\ Idle THEN Slots ELSE {}

GLifecycle ==
  \/ \E i \in Named, v \in T : ConstructOk(i, v)
  \/ \E i \in Named, e \in E : ConstructErr(i, e)
  \/ \E i, j \in Named : CopyConstruct(i, j)
  \/ \E i, j \in Named : MoveConstruct(i, j)
  \/ \E i, j \in Named : CopyAssignment(i, j)
  \/ \E i, j \in Named : MoveAssignment(i, j)
  \/ \E i \in Named : Destruct(i)

VLifecycle ==
  \/ \E i \in Named : VConstructOk(i)
  \/ \E i \in Named, e \in E : VConstructErr(i, e)
  \/ \E i, j \in Named : VCopyConstruct(i, j)
  \/ \E i, j \in Named : VMoveConstruct(i, j)
  \/ \E i, j \in Named : VCopyAssignment(i, j)
  \/ \E i, j \in Named : VMoveAssignment(i, j)
  \/ \E i \in Named : VDestruct(i)

Lifecycle == GLifecycle \/ VLifecycle

\* ---- operations of the general form on the container in slot i ----
\* a call of a member function on g[i]; none of them writes a member
\* variant: the member function moves the payload out of *this
Call_MovesOut(i, name, arg, o) ==
  /\ General /\ Present(g[i])
  /\ g' = [g EXCEPT ![i] = MovedFrom(g[i], IF g[i].is_ok_ THEN DefaultT ELSE DefaultE)]
  /\ aborted' = o.aborted
  /\ stderr' = stderr \o o.out
  /\ last' = [NoOp EXCEPT !.op = name, !.form = "general", !.dst = i,
                          !.self = g[i], !.arg = arg, !.ret = o.ret,
                          !.calls = o.calls, !.dcalls = o.dcalls,
                          !.seen = o.seen]
  /\ UNCHANGED <<form, w, faults, frame>>

Call(i, name, arg, o) ==
  /\ General /\ Present(g[i])
  /\ aborted' = o.aborted
  /\ stderr' = stderr \o o.out
  /\ last' = [NoOp EXCEPT !.op = name, !.form = "general", !.dst = i,
                          !.self = g[i], !.arg = arg, !.ret = o.ret,
                          !.calls = o.calls, !.dcalls = o.dcalls,
                          !.seen = o.seen]
  /\ UNCHANGED <<form, g, w, faults, frame>>

\* r.map(f).map(g) in one full-expression
MapMap(i, f, h) ==
  Call(i, "map.map", <<f, h>>,
       Out(map(map(g[i], f).ret, h).ret,
           map(g[i], f).calls + map(map(g[i], f).ret, h).calls, 0))

\* flatten on a temporary Result<Result<T, E>, E>
Flatten(outer) ==
  /\ General
  /\ aborted' = flatten(outer).aborted
  /\ stderr' = stderr \o flatten(outer).out
  /\ last' = [NoOp EXCEPT !.op = "flatten", !.form = "general",
                          !.self = outer, !.ret = flatten(outer).ret]
  /\ UNCHANGED <<form, g, w, faults, frame>>

\* ---- operations of the no-payload form on the container in slot i ----
VCall(i, name, arg, o) ==
  /\ Void /\ Present(w[i])
  /\ aborted' = o.aborted
  /\ stderr' = stderr \o o.out
  /\ last' = [NoOp EXCEPT !.op = name, !.form = "void", !.dst = i,
                          !.self = w[i], !.arg = arg, !.ret = o.ret,
                          !.calls = o.calls, !.dcalls = o.dcalls,
                          !.seen = o.seen]
  /\ UNCHANGED <<form, g, w, faults, frame>>

\* the containers a statement can name, and the temporaries it can build
InScope == {i \in Slots : General /\ Present(g[i])}
VInScope == {i \in Slots : Void /\ Present(w[i])}
Temporaries == IF General THEN Results ELSE {}
TemporaryErrs == IF General THEN E ELSE {}

Operations ==
  \/ \E i \in InScope :
       Call(i, "is_ok", 0, Out(is_ok(g[i]), 0, 0))
  \/ \E i \in InScope :
       Call(i, "is_err", 0, Out(is_err(g[i]), 0, 0))
  \/ \E i \in InScope :
       Call(i, "unwrap", 0, unwrap(g[i]))
  \/ \E i \in InScope :
       Call(i, "unwrap_err", 0, unwrap_err(g[i]))
  \/ \E i \in InScope, msg \in Msgs :
       Call(i, "expect", msg, expect(g[i], msg))
  \/ \E i \in InScope, msg \in Msgs :
       Call(i, "expect_err", msg, expect_err(g[i], msg))
  \/ \E i \in InScope, d \in T :
       Call(i, "unwrap_or", d, unwrap_or(g[i], d))
  \/ \E i \in InScope, func \in T :
       Call(i, "unwrap_or_else", func, unwrap_or_else(g[i], func))
  \/ \E i \in InScope :
       Call(i, "unwrap_or_default", 0, unwrap_or_default(g[i]))
  \/ \E i \in InScope, pred \in Preds :
       Call(i, "is_ok_and", pred, is_ok_and(g[i], pred))
  \/ \E i \in InScope, pred \in ErrPreds :
       Call(i, "is_err_and", pred, is_err_and(g[i], pred))
  \/ \E i \in InScope, func \in Fns :
       Call(i, "map", func, map(g[i], func))
  \/ \E i \in InScope, func \in ErrFns :
       Call(i, "map_err", func, map_err(g[i], func))
  \/ \E i \in InScope, d \in T, func \in Fns :
       Call(i, "map_or", <<d, func>>, map_or(g[i], d, func))
  \/ \E i \in InScope, dfn \in T, func \in Fns :
       Call(i, "map_or_else", <<dfn, func>>, map_or_else(g[i], dfn, func))
  \/ \E i \in InScope, func \in ResultFns :
       Call(i, "and_then", func, and_then(g[i], func))
  \/ \E i \in InScope, res \in Results :
       Call(i, "and_", res, and_(g[i], res))
  \/ \E i \in InScope, res \in Results :
       Call(i, "or_", res, or_(g[i], res))
  \/ \E i \in InScope, op \in Results :
       Call(i, "or_else", op, or_else(g[i], op))
  \/ \E i \in InScope, f \in Fns, h \in Fns : MapMap(i, f, h)
  \/ \E i \in InScope :
       Call(i, "inspect", 0, inspect(g[i], 0))
  \/ \E i \in InScope :
       Call(i, "inspect_err", 0, inspect_err(g[i], 0))
  \/ \E i \in InScope, v \in T :
       Call(i, "contains", v, contains(g[i], v))
  \/ \E i \in InScope, e \in E :
       Call(i, "contains_err", e, contains_err(g[i], e))
  \/ \E i \in InScope :
       Call(i, "ok", 0, ok(g[i]))
  \/ \E i \in InScope :
       Call(i, "err", 0, err(g[i]))
  \/ \E inner \in Temporaries : Flatten(Ok(inner))
  \/ \E e \in TemporaryErrs : Flatten(Err(e))
  \/ \E i \in VInScope :
       VCall(i, "is_ok", 0, Out(Vis_ok(w[i]), 0, 0))
  \/ \E i \in VInScope :
       VCall(i, "is_err", 0, Out(Vis_err(w[i]), 0, 0))
  \/ \E i \in VInScope :
       VCall(i, "unwrap", 0, Vunwrap(w[i]))
  \/ \E i \in VInScope :
       VCall(i, "unwrap_err", 0, Vunwrap_err(w[i]))
  \/ \E i \in VInScope, msg \in Msgs :
       VCall(i, "expect", msg, Vexpect(w[i], msg))
  \/ \E i \in VInScope, msg \in Msgs :
       VCall(i, "expect_err", msg, Vexpect_err(w[i], msg))
  \/ \E i \in VInScope, func \in ErrFns :
       VCall(i, "map_err", func, Vmap_err(w[i], func))
  \/ \E i \in VInScope :
       VCall(i, "inspect", 0, Vinspect(w[i], 0))
  \/ \E i \in VInScope :
       VCall(i, "inspect_err", 0, Vinspect_err(w[i], 0))
  \/ \E i \in VInScope, pred \in ErrPreds :
       VCall(i, "is_err_and", pred, Vis_err_and(w[i], pred))
  \/ \E i \in VInScope :
       VCall(i, "err", 0, Verr(w[i]))
  \/ \E i \in VInScope, res \in VResults :
       VCall(i, "and_", res, Vand_(w[i], res))
  \/ \E i \in VInScope, res \in VResults :
       VCall(i, "or_", res, Vor_(w[i], res))
  \/ \E i \in VInScope, e \in E :
       VCall(i, "contains_err", e, Vcontains_err(w[i], e))
  \/ \E i \in VInScope, func \in T :
       VCall(i, "map", func, Vmap(w[i], func))
  \/ \E i \in VInScope, func \in Results :
       VCall(i, "and_then", func, Vand_then(w[i], func))
  \/ \E i \in VInScope, d \in T, func \in T :
       VCall(i, "map_or", <<d, func>>, Vmap_or(w[i], d, func))
  \/ \E i \in VInScope, dfn \in T, func \in T :
       VCall(i, "map_or_else", <<dfn, func>>, Vmap_or_else(w[i], dfn, func))

\* ---- functions that propagate with TRY / TRYL ----
Function == Running /\ form = "function"

\* auto fn = [&]() -> Result<double> { ... }; auto res = fn();
FnCall(name) ==
  /\ Function /\ frame.pc = "none"
  /\ frame' = [Build(frame.has_statement_expr) EXCEPT !.fn = name, !.pc = "try"]
  /\ UNCHANGED <<form, g, w, faults, aborted, stderr, last>>

Propagate(o, label, r, local, next) ==
  /\ IF o.well_formed
     THEN /\ aborted' = o.aborted
          /\ stderr' = stderr \o o.out
          /\ frame' = [frame EXCEPT
                         !.evals = frame.evals \o [k \in 1..o.evals |-> label],
                         !.res = r, ![local] = o.value, !.ret = o.ret,
                         !.pc = IF o.aborted THEN "aborted"
                                ELSE IF o.returns THEN "returned" ELSE next]
     ELSE \* the function is rejected by the compiler: it never runs
          /\ frame' = [frame EXCEPT !.res = r, !.pc = "ill-formed"]
          /\ UNCHANGED <<aborted, stderr>>
  /\ UNCHANGED <<form, g, w, faults, last>>

\* #if CPP_RESULT_HAS_STATEMENT_EXPR ... #else ... #endif
TRY_as_built(res) == IF frame.has_statement_expr THEN TRY(res) ELSE TRY_lambda(res)

\* double v = TRY(divide_result(...));
FnTRY(r) ==
  /\ Function /\ frame.fn = "BM_TRY" /\ frame.pc = "try"
  /\ Propagate(TRY_as_built(r), "divide_result", r, "x", "after")

\* TRYL(val, divide_result(...));
FnTRYL(r) ==
  /\ Function /\ frame.fn = "BM_TRYL" /\ frame.pc = "try"
  /\ Propagate(TRYL(r), "divide_result", r, "x", "after")

\* return Ok<double>(v);
FnReturnOk ==
  /\ Function /\ frame.fn \in {"BM_TRY", "BM_TRYL"} /\ frame.pc = "after"
  /\ frame' = [frame EXCEPT !.stmts = frame.stmts + 1, !.ret = Ok(frame.x),
                            !.pc = "returned"]
  /\ UNCHANGED <<form, g, w, faults, aborted, stderr, last>>

\* the caller has looked at the result
FnDone ==
  /\ Function /\ frame.pc = "returned"
  /\ frame' = Build(frame.has_statement_expr)
  /\ UNCHANGED <<form, g, w, faults, aborted, stderr, last>>

\* auto res = parse_div_and_double(a, b);
PddCall(a, b) ==
  /\ Function /\ frame.pc = "none"
  /\ frame' = [Build(frame.has_statement_expr) EXCEPT
                 !.fn = "parse_div_and_double", !.pc = "try_a", !.args = <<a, b>>]
  /\ UNCHANGED <<form, g, w, faults, aborted, stderr, last>>

\* int x = TRY(parse_int(a));
PddTryA ==
  /\ Function /\ frame.fn = "parse_div_and_double" /\ frame.pc = "try_a"
  /\ Propagate(TRY_as_built(parse_int(frame.args[1])), "parse_int(a)",
               parse_int(frame.args[1]), "x", "try_b")

\* int y = TRY(parse_int(b));
PddTryB ==
  /\ Function /\ frame.fn = "parse_div_and_double" /\ frame.pc = "try_b"
  /\ Propagate(TRY_as_built(parse_int(frame.args[2])), "parse_int(b)",
               parse_int(frame.args[2]), "y", "divide")

\* return safe_div(x, y).and_then(...).map(...);
PddReturn ==
  /\ Function /\ frame.fn = "parse_div_and_double" /\ frame.pc = "divide"
  /\ LET q == safe_div(frame.x, frame.y)
         d == and_then(q, [v \in Int |-> DoubleIfBig(v)]).ret
         m == map(d, [v \in Int |-> AddY(frame.y, v)]).ret
     IN  frame' = [frame EXCEPT !.evals = frame.evals \o <<"safe_div">>,
                                !.res = q, !.stmts = frame.stmts + 1,
                                !.ret = m, !.pc = "returned"]
  /\ UNCHANGED <<form, g, w, faults, aborted, stderr, last>>

Arguments == IF Function /\ frame.pc = "none" THEN Strings ELSE {}

Expressions == IF Function /\ frame.pc = "try" THEN Results ELSE {}

Functions ==
  \/ FnCall("BM_TRY")
  \/ FnCall("BM_TRYL")
  \/ \E r \in Expressions : FnTRY(r)
  \/ \E r \in Expressions : FnTRYL(r)
  \/ FnReturnOk
  \/ \E a \in Arguments, b \in Arguments : PddCall(a, b)
  \/ PddTryA
  \/ PddTryB
  \/ PddReturn
  \/ FnDone

\* ---- assignments whose payload constructor throws ----
\* The exception leaves operator= after destroy(); when the operator is
\* noexcept (T and E nothrow-assignable) std::terminate ends the program,
\* otherwise the caller catches it and goes on with the destination.
CopyAssignmentThrows(i, j, terminate) ==
  /\ General /\ Present(g[i]) /\ Present(g[j]) /\ i # j
  /\ g' = [g EXCEPT ![i] = Settle(AssignInterrupted(g[i], g[j]))]
  /\ faults' = faults \cup Faults("general", AssignInterrupted(g[i], g[j]))
  /\ aborted' = terminate
  /\ last' = [NoOp EXCEPT !.op = "copy_assign throws", !.form = "general",
                          !.dst = i, !.src = j, !.self = g[i], !.other = g[j]]
  /\ UNCHANGED <<form, w, stderr, frame>>

MoveAssignmentThrows(i, j, terminate) ==
  /\ General /\ Present(g[i]) /\ Present(g[j]) /\ i # j
  /\ \E left \in Domain(g[j]) :
       g' = [g EXCEPT ![i] = Settle(AssignInterrupted(g[i], g[j])),
                      ![j] = MovedFrom(g[j], left)]
  /\ faults' = faults \cup Faults("general", AssignInterrupted(g[i], g[j]))
  /\ aborted' = terminate
  /\ last' = [NoOp EXCEPT !.op = "move_assign throws", !.form = "general",
                          !.dst = i, !.src = j, !.self = g[i], !.other = g[j]]
  /\ UNCHANGED <<form, w, stderr, frame>>

Throwing ==
  \/ \E i, j \in Named, terminate \in BOOLEAN : CopyAssignmentThrows(i, j, terminate)
  \/ \E i, j \in Named, terminate \in BOOLEAN : MoveAssignmentThrows(i, j, terminate)

Next == Lifecycle \/ Operations \/ EndStatement \/ Functions

Spec == Init /\ [][Next]_vars

\* Result<T, E> with payload types whose copy / move constructor may throw
InitThrow == Init /\ form = "general"

NextThrow == GLifecycle \/ Throwing \/ EndStatement

SpecThrow == InitThrow /\ [][NextThrow]_vars

\* ============================ properties ==============================
ExtractOps == {"unwrap", "unwrap_err", "expect", "expect_err"}
ContainerOps == {"map", "map_err", "and_then", "and_", "or_", "or_else",
                 "inspect", "inspect_err", "flatten"}

\* the discriminant names the one live member of the union
OneLive(c) ==
  /\ c.live = (IF c.is_ok_ THEN "value" ELSE "error")
  /\ c.live \in {"value", "error"}
  /\ is_ok(c) = ~is_err(c)

\* the payload of the active branch
Payload(c) == c.data_

\* C1: in the general form every container in scope, and every container a
\* combinator returns, has exactly one live payload, the one is_ok_ names,
\* and is_ok() = !is_err().
C1_ExactlyOneLive ==
  /\ \A i \in Slots : Present(g[i]) => OneLive(g[i])
  /\ (last.form = "general" /\ last.op \in ContainerOps) => OneLive(last.ret)

\* a move assignment between distinct containers that changed the branch
C1_Witness ==
  /\ last.form = "general" /\ last.op = "move_assign" /\ last.dst # last.src
  /\ last.self.is_ok_ # last.other.is_ok_
  /\ OneLive(g[last.dst]) /\ OneLive(g[last.src])

\* C2: a copy gives the destination the source's discriminant and an equal
\* payload and leaves the source as it was; a move gives the destination the
\* discriminant and the payload the source had before the move.
C2_CopyMovePreserve ==
  /\ (last.form = "general" /\ last.op \in {"copy_ctor", "copy_assign"}) =>
       /\ g[last.dst].is_ok_ = last.other.is_ok_
       /\ Payload(g[last.dst]) = Payload(last.other)
       /\ g[last.src] = last.other
  /\ (last.form = "general" /\ last.op \in {"move_ctor", "move_assign"}) =>
       /\ g[last.dst].is_ok_ = last.other.is_ok_
       /\ Payload(g[last.dst]) = Payload(last.other)
  /\ (last.form = "void" /\ last.op \in {"copy_ctor", "copy_assign"}) =>
       /\ w[last.dst].is_ok_ = last.other.is_ok_
       /\ ~last.other.is_ok_ => w[last.dst].error_ = last.other.error_
       /\ w[last.src] = last.other
  /\ (last.form = "void" /\ last.op \in {"move_ctor", "move_assign"}) =>
       /\ w[last.dst].is_ok_ = last.other.is_ok_
       /\ ~last.other.is_ok_ => w[last.dst].error_ = last.other.error_

\* a copy assignment of a failure container over a success container
C2_Witness ==
  /\ last.form = "general" /\ last.op = "copy_assign" /\ last.dst # last.src
  /\ last.self.is_ok_ /\ ~last.other.is_ok_
  /\ ~g[last.dst].is_ok_ /\ Payload(g[last.dst]) = Payload(last.other)

\* C3: in the general form no payload's storage is reused or released
\* without its destructor, and no destructor runs on a member that holds no
\* live object: every payload constructed is destroyed exactly once.
C3_DestroyedExactlyOnce ==
  /\ \A f \in faults : f[1] # "general"
  /\ (last.form = "general" /\ last.op = "dtor") => last.other.live = "none"

\* a container has been destroyed while another is still in scope
C3_Witness ==
  /\ last.form = "general" /\ last.op = "dtor"
  /\ last.other.live = "none" /\ ~last.other.leak /\ ~last.other.bad
  /\ \E i \in Slots : Present(g[i])

\* C4: in the no-payload form an E object is live iff the container is a
\* failure, and every E object constructed in it is destroyed exactly once.
C4_VoidPayloadIffFailure ==
  /\ \A i \in Slots : Present(w[i]) => ((w[i].live = "error") <=> ~w[i].is_ok_)
  /\ \A f \in faults : f[1] # "void"

\* C5: Ok(v) is a success whose unwrap() is v, Err(e) is a failure whose
\* unwrap_err() is e, in both forms.
C5_FactoryRoundTrip ==
  /\ (last.form = "general" /\ last.op = "Ok") =>
       LET c == g[last.dst]
       IN /\ is_ok(c) /\ ~is_err(c)
          /\ ~unwrap(c).aborted /\ unwrap(c).ret = last.arg
  /\ (last.form = "general" /\ last.op = "Err") =>
       LET c == g[last.dst]
       IN /\ is_err(c) /\ ~is_ok(c)
          /\ ~unwrap_err(c).aborted /\ unwrap_err(c).ret = last.arg
  /\ (last.form = "void" /\ last.op = "Ok") =>
       LET c == w[last.dst]
       IN Vis_ok(c) /\ ~Vis_err(c) /\ ~Vunwrap(c).aborted
  /\ (last.form = "void" /\ last.op = "Err") =>
       LET c == w[last.dst]
       IN /\ Vis_err(c) /\ ~Vis_ok(c)
          /\ ~Vunwrap_err(c).aborted /\ Vunwrap_err(c).ret = last.arg

\* Err(e) of the general form with a non-default e
C5_Witness ==
  /\ last.form = "general" /\ last.op = "Err" /\ last.arg # DefaultE
  /\ unwrap_err(g[last.dst]).ret = last.arg

\* the receiver of the last extraction was on the branch the extraction
\* does not accept
WrongBranch ==
  IF last.op \in {"unwrap", "expect"} THEN ~last.self.is_ok_ ELSE last.self.is_ok_

Diagnostic ==
  CASE last.op = "unwrap" -> "unwrap called on Result::Err()"
    [] last.op = "unwrap_err" -> "unwrap_err called on Result::Ok()"
    [] OTHER -> last.arg

Extracted ==
  IF last.op \in {"unwrap", "expect"}
  THEN (IF last.form = "void" THEN Unit ELSE Payload(last.self))
  ELSE (IF last.form = "void" THEN last.self.error_ ELSE Payload(last.self))

\* C6: an extraction on the wrong branch writes its diagnostic (fixed for
\* unwrap / unwrap_err, the caller's msg for expect / expect_err) to stderr
\* and aborts; on the matching branch it returns the payload, writes nothing
\* and does not abort.
C6_ContractViolationAborts ==
  last.op \in ExtractOps =>
    IF WrongBranch
    THEN aborted /\ stderr = <<Diagnostic>>
    ELSE ~aborted /\ stderr = <<>> /\ last.ret = Extracted

\* expect(msg) on a failure container of the no-payload form
C6_Witness ==
  /\ last.form = "void" /\ last.op = "expect" /\ ~last.self.is_ok_
  /\ aborted /\ stderr = <<last.arg>>

\* C7: the process is aborted only by an extraction called on the wrong
\* branch; no other operation aborts or writes a diagnostic.
C7_OnlyExtractionAborts ==
  /\ aborted => (last.op \in ExtractOps /\ WrongBranch)
  /\ stderr # <<>> => aborted

\* unwrap_or_default on a failure container completed
C7_Witness ==
  /\ last.op = "unwrap_or_default" /\ ~last.self.is_ok_ /\ ~aborted

\* C8: unwrap_or(d) is the success payload, or d on failure;
\* unwrap_or_default() is the success payload, or T{} on failure.
C8_UnwrapOrValue ==
  /\ last.op = "unwrap_or" =>
       last.ret = (IF last.self.is_ok_ THEN Payload(last.self) ELSE last.arg)
  /\ last.op = "unwrap_or_default" =>
       last.ret = (IF last.self.is_ok_ THEN Payload(last.self) ELSE 0)

\* unwrap_or(d) on a failure container with a non-default d
C8_Witness ==
  /\ last.op = "unwrap_or" /\ ~last.self.is_ok_
  /\ last.arg # DefaultT /\ last.ret = last.arg

\* C9: unwrap_or_else calls the supplier once and returns its result on a
\* failure, and never calls it on a success.
C9_UnwrapOrElseOnce ==
  last.op = "unwrap_or_else" =>
    IF last.self.is_ok_
    THEN last.calls = 0 /\ last.ret = Payload(last.self)
    ELSE last.calls = 1 /\ last.ret = last.arg

\* the supplier was called on a failure container
C9_Witness ==
  /\ last.op = "unwrap_or_else" /\ ~last.self.is_ok_ /\ last.calls = 1

\* C10: map(f) on Ok(v) is Ok(f(v)) with one call of f; on Err(e) it is
\* Err(e) and f is not called.
C10_Map ==
  (last.form = "general" /\ last.op = "map") =>
    IF last.self.is_ok_
    THEN /\ is_ok(last.ret) /\ last.ret.live = "value"
         /\ Payload(last.ret) = last.arg[Payload(last.self)]
         /\ last.calls = 1
    ELSE /\ is_err(last.ret) /\ last.ret.live = "error"
         /\ Payload(last.ret) = Payload(last.self)
         /\ last.calls = 0

\* map with an f that changes the payload
C10_Witness ==
  /\ last.form = "general" /\ last.op = "map" /\ last.self.is_ok_
  /\ last.arg[Payload(last.self)] # Payload(last.self)
  /\ Payload(last.ret) = last.arg[Payload(last.self)]

\* ---- state-preserving combinators ----
Identity == [x \in T |-> x]
Compose(f, h) == [x \in T |-> h[f[x]]]
Wrap == [x \in T |-> Ok(x)]

\* two containers of the general form in the same state with the same payload
Same(a, b) == a.is_ok_ = b.is_ok_ /\ a.live = b.live /\ a.data_ = b.data_

\* two containers of the no-payload form in the same state, with the same
\* failure payload when they are failures
VSame(a, b) == a.is_ok_ = b.is_ok_ /\ (~a.is_ok_ => a.error_ = b.error_)

\* C11: functor laws of map, in either state: r.map(identity) equals r, and
\* r.map(f).map(h) equals r.map(x -> h(f(x))) for all f and h.
C11_FunctorLaws ==
  /\ (last.form = "general" /\ last.op = "map") =>
       (last.arg = Identity => Same(last.ret, last.self))
  /\ last.op = "map.map" =>
       Same(last.ret, map(last.self, Compose(last.arg[1], last.arg[2])).ret)

\* a success container mapped through two functions, neither the identity
C11_Witness ==
  /\ last.op = "map.map" /\ last.self.is_ok_ /\ last.calls = 2
  /\ last.arg[1] # Identity /\ last.arg[2] # Identity
  /\ Payload(last.ret) = last.arg[2][last.arg[1][Payload(last.self)]]

\* C12: map_err(f), both forms: a failure holding e becomes a failure holding
\* f(e) with one call of f; a success stays a success with the same payload
\* (or none) and f is not called.
C12_MapErr ==
  /\ (last.form = "general" /\ last.op = "map_err") =>
       IF last.self.is_ok_
       THEN /\ is_ok(last.ret) /\ last.ret.live = "value"
            /\ Payload(last.ret) = Payload(last.self)
            /\ last.calls = 0
       ELSE /\ is_err(last.ret) /\ last.ret.live = "error"
            /\ Payload(last.ret) = last.arg[Payload(last.self)]
            /\ last.calls = 1
  /\ (last.form = "void" /\ last.op = "map_err") =>
       IF last.self.is_ok_
       THEN Vis_ok(last.ret) /\ last.calls = 0
       ELSE /\ Vis_err(last.ret)
            /\ last.ret.error_ = last.arg[last.self.error_]
            /\ last.calls = 1

\* map_err with an f that changes the failure payload
C12_Witness ==
  /\ last.form = "general" /\ last.op = "map_err" /\ ~last.self.is_ok_
  /\ last.arg[Payload(last.self)] # Payload(last.self)
  /\ Payload(last.ret) = last.arg[Payload(last.self)]

\* C13: map_or(d, f) and map_or_else(ds, f) return f(payload) on a success,
\* without calling ds; on a failure they return d, or the result of one call
\* of ds, and f is not called.
C13_MapOr ==
  /\ (last.form = "general" /\ last.op = "map_or") =>
       IF last.self.is_ok_
       THEN last.ret = last.arg[2][Payload(last.self)] /\ last.calls = 1
       ELSE last.ret = last.arg[1] /\ last.calls = 0
  /\ (last.form = "general" /\ last.op = "map_or_else") =>
       IF last.self.is_ok_
       THEN /\ last.ret = last.arg[2][Payload(last.self)]
            /\ last.calls = 1 /\ last.dcalls = 0
       ELSE /\ last.ret = last.arg[1]
            /\ last.calls = 0 /\ last.dcalls = 1

\* map_or_else on a success whose f(payload) differs from the supplier's value
C13_Witness ==
  /\ last.form = "general" /\ last.op = "map_or_else" /\ last.self.is_ok_
  /\ last.arg[2][Payload(last.self)] # last.arg[1]
  /\ last.ret = last.arg[2][Payload(last.self)]

\* C14: and_then(f) on Ok(v) returns exactly f(v); on Err(e) it returns a
\* failure holding e and f is not called; and_then(x -> Ok(x)) returns a
\* container equal to the original in either state.
C14_AndThen ==
  (last.form = "general" /\ last.op = "and_then") =>
    /\ IF last.self.is_ok_
       THEN last.ret = last.arg[Payload(last.self)] /\ last.calls = 1
       ELSE /\ is_err(last.ret) /\ last.ret.live = "error"
            /\ Payload(last.ret) = Payload(last.self)
            /\ last.calls = 0
    /\ last.arg = Wrap => Same(last.ret, last.self)

\* and_then on a success whose f returns a failure
C14_Witness ==
  /\ last.form = "general" /\ last.op = "and_then" /\ last.self.is_ok_
  /\ is_err(last.arg[Payload(last.self)]) /\ is_err(last.ret)

\* C15: and_(other) is other when self is a success and a failure holding
\* self's failure payload otherwise; or_(other) is other when self is a
\* failure and self otherwise; in both forms and the four combinations.
C15_AndOr ==
  /\ (last.form = "general" /\ last.op = "and_") =>
       IF last.self.is_ok_
       THEN Same(last.ret, last.arg)
       ELSE /\ is_err(last.ret) /\ last.ret.live = "error"
            /\ Payload(last.ret) = Payload(last.self)
  /\ (last.form = "general" /\ last.op = "or_") =>
       IF ~last.self.is_ok_
       THEN Same(last.ret, last.arg)
       ELSE Same(last.ret, last.self)
  /\ (last.form = "void" /\ last.op = "and_") =>
       IF last.self.is_ok_
       THEN VSame(last.ret, last.arg)
       ELSE Vis_err(last.ret) /\ last.ret.error_ = last.self.error_
  /\ (last.form = "void" /\ last.op = "or_") =>
       IF ~last.self.is_ok_
       THEN VSame(last.ret, last.arg)
       ELSE VSame(last.ret, last.self)

\* or_ on a success with a failure as the alternative: self is returned
C15_Witness ==
  /\ last.form = "general" /\ last.op = "or_"
  /\ last.self.is_ok_ /\ is_err(last.arg)
  /\ is_ok(last.ret) /\ Payload(last.ret) = Payload(last.self)

\* C16: or_else(f) on a failure calls f once and returns its container; on a
\* success f is not called and the result equals the original.
C16_OrElse ==
  last.op = "or_else" =>
    IF ~last.self.is_ok_
    THEN last.calls = 1 /\ last.ret = last.arg
    ELSE last.calls = 0 /\ Same(last.ret, last.self)

\* or_else on a failure whose f returns a success
C16_Witness ==
  /\ last.op = "or_else" /\ ~last.self.is_ok_
  /\ is_ok(last.arg) /\ is_ok(last.ret) /\ last.calls = 1

\* C17: inspect calls f once, with the success payload (with no argument in
\* the no-payload form), exactly when the container is a success;
\* inspect_err calls f once with the failure payload exactly when it is a
\* failure; both return the original container, which is unchanged.
C17_Inspect ==
  /\ (last.form = "general" /\ last.op = "inspect") =>
       /\ last.ret = last.self /\ g[last.dst] = last.self
       /\ IF last.self.is_ok_
          THEN last.calls = 1 /\ last.seen = << <<Payload(last.self)>> >>
          ELSE last.calls = 0 /\ last.seen = <<>>
  /\ (last.form = "general" /\ last.op = "inspect_err") =>
       /\ last.ret = last.self /\ g[last.dst] = last.self
       /\ IF ~last.self.is_ok_
          THEN last.calls = 1 /\ last.seen = << <<Payload(last.self)>> >>
          ELSE last.calls = 0 /\ last.seen = <<>>
  /\ (last.form = "void" /\ last.op = "inspect") =>
       /\ last.ret = last.self /\ w[last.dst] = last.self
       /\ IF last.self.is_ok_
          THEN last.calls = 1 /\ last.seen = << <<>> >>
          ELSE last.calls = 0 /\ last.seen = <<>>
  /\ (last.form = "void" /\ last.op = "inspect_err") =>
       /\ last.ret = last.self /\ w[last.dst] = last.self
       /\ IF ~last.self.is_ok_
          THEN last.calls = 1 /\ last.seen = << <<last.self.error_>> >>
          ELSE last.calls = 0 /\ last.seen = <<>>

\* inspect on a success with a payload other than T{}: f saw that payload
C17_Witness ==
  /\ last.form = "general" /\ last.op = "inspect" /\ last.self.is_ok_
  /\ Payload(last.self) # DefaultT
  /\ last.seen = << <<Payload(last.self)>> >> /\ last.ret = g[last.dst]

\* C18: is_ok_and(p) is true iff the container is a success and p(payload)
\* holds, is_err_and(p) iff it is a failure and p(payload) holds, p not
\* being called in the other state; contains(x) is true iff it is a success
\* whose payload equals x, contains_err(y) iff it is a failure whose payload
\* equals y; contains(x) agrees with is_ok_and(v -> v == x).
C18_Predicates ==
  /\ last.op = "is_ok_and" =>
       /\ last.ret = (last.self.is_ok_ /\ last.arg[Payload(last.self)])
       /\ last.calls = IF last.self.is_ok_ THEN 1 ELSE 0
  /\ (last.form = "general" /\ last.op = "is_err_and") =>
       /\ last.ret = (~last.self.is_ok_ /\ last.arg[Payload(last.self)])
       /\ last.calls = IF ~last.self.is_ok_ THEN 1 ELSE 0
  /\ (last.form = "void" /\ last.op = "is_err_and") =>
       /\ last.ret = (~last.self.is_ok_ /\ last.arg[last.self.error_])
       /\ last.calls = IF ~last.self.is_ok_ THEN 1 ELSE 0
  /\ last.op = "contains" =>
       /\ last.ret = (last.self.is_ok_ /\ Payload(last.self) = last.arg)
       /\ last.ret = is_ok_and(last.self, [v \in T |-> v = last.arg]).ret
       /\ last.calls = 0
  /\ (last.form = "general" /\ last.op = "contains_err") =>
       /\ last.ret = (~last.self.is_ok_ /\ Payload(last.self) = last.arg)
       /\ last.ret = is_err_and(last.self, [v \in E |-> v = last.arg]).ret
  /\ (last.form = "void" /\ last.op = "contains_err") =>
       last.ret = (~last.self.is_ok_ /\ last.self.error_ = last.arg)

\* is_ok_and on a success whose payload fails the predicate
C18_Witness ==
  /\ last.op = "is_ok_and" /\ last.self.is_ok_
  /\ ~last.arg[Payload(last.self)] /\ last.ret = FALSE /\ last.calls = 1

\* C19: ok() holds the success payload iff the container is a success and is
\* empty otherwise; err() holds the failure payload iff it is a failure and
\* is empty otherwise; exactly one of the two has a value.  The no-payload
\* form has err() only, with the same rule.
C19_Optional ==
  /\ last.op = "ok" =>
       /\ last.ret.has_value = last.self.is_ok_
       /\ last.ret.has_value => last.ret.value = Payload(last.self)
       /\ err(last.self).ret.has_value # last.ret.has_value
  /\ (last.form = "general" /\ last.op = "err") =>
       /\ last.ret.has_value = ~last.self.is_ok_
       /\ last.ret.has_value => last.ret.value = Payload(last.self)
       /\ ok(last.self).ret.has_value # last.ret.has_value
  /\ (last.form = "void" /\ last.op = "err") =>
       /\ last.ret.has_value = ~last.self.is_ok_
       /\ last.ret.has_value => last.ret.value = last.self.error_

\* err() on a failure holds a payload other than E{}
C19_Witness ==
  /\ last.form = "general" /\ last.op = "err" /\ ~last.self.is_ok_
  /\ last.ret = Some(Payload(last.self)) /\ Payload(last.self) # DefaultE

\* C20: flatten gives Ok(v) for Ok(Ok(v)), Err(e) for Ok(Err(e)), and
\* Err(e2) for an outer Err(e2).
C20_Flatten ==
  last.op = "flatten" =>
    IF last.self.is_ok_
    THEN IF last.self.data_.is_ok_
         THEN /\ is_ok(last.ret) /\ last.ret.live = "value"
              /\ Payload(last.ret) = Payload(last.self.data_)
         ELSE /\ is_err(last.ret) /\ last.ret.live = "error"
              /\ Payload(last.ret) = Payload(last.self.data_)
    ELSE /\ is_err(last.ret) /\ last.ret.live = "error"
         /\ Payload(last.ret) = Payload(last.self)

\* flatten of an outer success holding an inner failure
C20_Witness ==
  /\ last.op = "flatten" /\ last.self.is_ok_ /\ is_err(last.self.data_)
  /\ is_err(last.ret) /\ Payload(last.ret) = Payload(last.self.data_)

\* C21: in the no-payload form, map(s) on a success is a success of the
\* general form holding s() and and_then(s) is exactly the container s()
\* returns, s being called once; on a failure holding e both are failures
\* holding e and s is not called; unwrap on a success does not abort.
C21_VoidTransformations ==
  /\ (last.form = "void" /\ last.op = "map") =>
       IF last.self.is_ok_
       THEN /\ is_ok(last.ret) /\ last.ret.live = "value"
            /\ Payload(last.ret) = last.arg /\ last.calls = 1
       ELSE /\ is_err(last.ret) /\ last.ret.live = "error"
            /\ Payload(last.ret) = last.self.error_ /\ last.calls = 0
  /\ (last.form = "void" /\ last.op = "and_then") =>
       IF last.self.is_ok_
       THEN last.ret = last.arg /\ last.calls = 1
       ELSE /\ is_err(last.ret) /\ last.ret.live = "error"
            /\ Payload(last.ret) = last.self.error_ /\ last.calls = 0
  /\ (last.form = "void" /\ last.op = "unwrap" /\ last.self.is_ok_) =>
       ~aborted /\ stderr = <<>>

\* map on a failure of the no-payload form holding an error other than E{}
C21_Witness ==
  /\ last.form = "void" /\ last.op = "map" /\ ~last.self.is_ok_
  /\ last.self.error_ # DefaultE
  /\ is_err(last.ret) /\ Payload(last.ret) = last.self.error_

\* ---- propagation ----
Propagating == frame.fn \in {"BM_TRY", "BM_TRYL"}

\* C22: TRY(expr) and TRYL(name, expr) evaluate the expression once; on a
\* failure the enclosing function returns at once a failure holding the same
\* payload and no later statement runs; on a success the construct yields or
\* binds the success payload and the function goes on; the construct never
\* aborts.
C22_Propagation ==
  Propagating =>
    /\ ~aborted /\ frame.pc # "aborted"
    /\ frame.pc \in {"after", "returned"} => Len(frame.evals) = 1
    /\ (frame.pc = "after" \/ frame.stmts > 0) =>
         is_ok(frame.res) /\ frame.x = Payload(frame.res)
    /\ (frame.pc \in {"after", "returned"} /\ is_err(frame.res)) =>
         /\ frame.pc = "returned" /\ frame.stmts = 0
         /\ is_err(frame.ret) /\ frame.ret.live = "error"
         /\ Payload(frame.ret) = Payload(frame.res)
    /\ (frame.pc = "returned" /\ is_ok(frame.res)) =>
         frame.stmts = 1 /\ frame.ret = Ok(Payload(frame.res))

\* a function returned early from TRYL with an error other than E{}
C22_Witness ==
  /\ frame.fn = "BM_TRYL" /\ frame.pc = "returned" /\ is_err(frame.res)
  /\ Payload(frame.ret) = Payload(frame.res) /\ Payload(frame.res) # DefaultE
  /\ frame.stmts = 0

\* ---- propagation scenario (parse_div_and_double) ----
\* what each argument string denotes; the strings outside it are no integers
Denotes ==
  {<<<<"4", "0">>, 40>>, <<<<"2">>, 2>>, <<<<"1", "8">>, 18>>, <<<<"1", "0">>, 10>>,
   <<<<"0">>, 0>>, <<<<"-", "8">>, -8>>, <<<<"7", "z">>, 7>>}
Parses(s) == \E p \in Denotes : p[1] = s
ValueOf(s) == (CHOOSE p \in Denotes : p[1] = s)[2]
Abs(n) == IF n < 0 THEN -n ELSE n

\* the quotient of int division: the remainder has the sign of the dividend
QuotientOf(a, b) ==
  CHOOSE q \in -Abs(a)..Abs(a) :
    /\ Abs(a - q * b) < Abs(b)
    /\ (a >= 0 => a - q * b >= 0) /\ (a < 0 => a - q * b <= 0)

PddReturned == frame.fn = "parse_div_and_double" /\ frame.pc = "returned"
PddA == frame.args[1]
PddB == frame.args[2]

\* the parse failures and the division by zero, common to both statements
PddFailures ==
  /\ ~Parses(PddA) =>
       /\ frame.ret = Err(InvalidInteger \o PddA)
       /\ frame.evals = <<"parse_int(a)">> /\ frame.stmts = 0
  /\ (Parses(PddA) /\ ~Parses(PddB)) =>
       /\ frame.ret = Err(InvalidInteger \o PddB)
       /\ frame.evals = <<"parse_int(a)", "parse_int(b)">> /\ frame.stmts = 0
  /\ (Parses(PddA) /\ Parses(PddB) /\ ValueOf(PddB) = 0) =>
       frame.ret = Err(DivisionByZero)
  /\ (PddA = <<"1", "0">> /\ PddB = <<"0">>) => frame.ret = Err(<<"D", "i", "v", "i", "s", "i", "o", "n", " ", "b", "y", " ", "z", "e", "r", "o">>)
  /\ (PddA = <<"a", "b", "c">> /\ PddB = <<"2">>) => frame.ret = Err(<<"I", "n", "v", "a", "l", "i", "d", " ", "i", "n", "t", "e", "g", "e", "r", ":", " ", "a", "b", "c">>)

\* C23 as stated: a parse failure is returned unchanged, parse(b) and the
\* division not being evaluated after a failure of parse(a); the division by
\* zero is returned when b parses to zero; otherwise the result is a success
\* holding the quotient; ("40","2") gives success 20.
C23_PropagationScenario ==
  PddReturned =>
    /\ PddFailures
    /\ (Parses(PddA) /\ Parses(PddB) /\ ValueOf(PddB) # 0) =>
         frame.ret = Ok(QuotientOf(ValueOf(PddA), ValueOf(PddB)))
    /\ (PddA = <<"4", "0">> /\ PddB = <<"2">>) => frame.ret = Ok(20)

\* C23 amended: as stated for the failures; otherwise, with q the quotient,
\* the result is the failure "Value too small: q" when q <= 10 and a success
\* holding 2 * q + b when q > 10; ("40","2") gives success 42 and
\* ("18","2") the failure "Value too small: 9".
C23_Amended ==
  PddReturned =>
    /\ PddFailures
    /\ (Parses(PddA) /\ Parses(PddB) /\ ValueOf(PddB) # 0) =>
         LET q == QuotientOf(ValueOf(PddA), ValueOf(PddB))
         IN  IF q > 10 THEN frame.ret = Ok(2 * q + ValueOf(PddB))
             ELSE /\ is_err(frame.ret)
                  /\ SubSeq(Payload(frame.ret), 1, Len(ValueTooSmall)) = ValueTooSmall
                  /\ stoi(SubSeq(Payload(frame.ret), Len(ValueTooSmall) + 1,
                                 Len(Payload(frame.ret)))).value = q
    /\ (PddA = <<"4", "0">> /\ PddB = <<"2">>) => frame.ret = Ok(42)
    /\ (PddA = <<"1", "8">> /\ PddB = <<"2">>) => frame.ret = Err(<<"V", "a", "l", "u", "e", " ", "t", "o", "o", " ", "s", "m", "a", "l", "l", ":", " ", "9">>)

\* ("40", "2"): both parses succeed, the quotient 20 is doubled and 2 added
C23_Witness ==
  /\ PddReturned /\ PddA = <<"4", "0">> /\ PddB = <<"2">>
  /\ frame.x = 40 /\ frame.y = 2 /\ frame.ret = Ok(42)
  /\ frame.evals = <<"parse_int(a)", "parse_int(b)", "safe_div">>

\* ---- frame of the combinators ----
CombinatorOps ==
  {"unwrap_or", "unwrap_or_else", "unwrap_or_default", "map", "map_err",
   "map_or", "map_or_else", "and_then", "and_", "or_", "or_else", "inspect",
   "inspect_err", "is_ok_and", "is_err_and", "contains", "contains_err",
   "ok", "err", "flatten", "map.map"}

C25_TryFormsEquivalent ==
  (frame.fn = "BM_TRY" /\ frame.pc \notin {"none", "try"}) =>
    IF is_err(frame.res)
    THEN /\ frame.pc = "returned" /\ is_err(frame.ret)
         /\ Payload(frame.ret) = Payload(frame.res)
    ELSE /\ frame.pc \in {"after", "returned"}
         /\ frame.x = Payload(frame.res)

\* ---- or_else and and_then ----
\* C27 as stated: or_else mirrors and_then: as and_then applies f to the
\* success payload, or_else on a failure applies f to the failure payload.
C27_OrElseMirrorsAndThen ==
  /\ (last.form = "general" /\ last.op = "and_then" /\ last.self.is_ok_) =>
       last.seen = << <<Payload(last.self)>> >>
  /\ (last.op = "or_else" /\ ~last.self.is_ok_) =>
       last.seen = << <<Payload(last.self)>> >>

\* C27 amended: and_then applies f to the success payload; or_else on a
\* failure calls f with no argument, so that the container returned is the
\* one f() gives whatever the failure payload is.
C27_Amended ==
  /\ (last.form = "general" /\ last.op = "and_then" /\ last.self.is_ok_) =>
       last.seen = << <<Payload(last.self)>> >>
  /\ (last.op = "or_else" /\ ~last.self.is_ok_) =>
       /\ last.seen = << <<>> >>
       /\ \A e \in E : or_else(Err(e), last.arg).ret = last.ret

\* or_else on a failure holding an error other than E{}
C27_Witness ==
  /\ last.op = "or_else" /\ ~last.self.is_ok_ /\ Payload(last.self) # DefaultE
  /\ last.seen = << <<>> >> /\ last.ret = last.arg

\* ---- assignment when the payload constructor throws ----
ThrowingAssignOps == {"copy_assign throws", "move_assign throws"}

\* C26: when the payload constructor throws during a copy or move
\* assignment, the destination still holds exactly one live payload, the one
\* its discriminant names, and its destruction releases one live object.
C26_AssignmentFailureAtomic ==
  /\ last.op \in ThrowingAssignOps =>
       g[last.dst].live = (IF g[last.dst].is_ok_ THEN "value" ELSE "error")
  /\ last.op = "dtor" => ~last.other.bad /\ ~last.other.leak

====
